---- MODULE Spec2Model ----
(***************************************************************************)
(* HelloStretchKinematics (src/src/stretch/motion/kinematics.py): the      *)
(* configuration converters, the IK/FK orchestration calls and the arm     *)
(* extension helper, as a state machine of calls.                          *)
(*                                                                         *)
(* A configuration vector is a function 0..(n-1) -> Int, indexed as the    *)
(* numpy array is.  Lengths are integer multiples of the least step of the *)
(* number format; a quotient that falls between two steps is rounded to    *)
(* the nearest one, ties to even, as binary floating-point division does.  *)
(* Angles are counted in quarter turns, so that np.pi / 2 is one unit and  *)
(* cos and sin take the values 0, 1 and -1.                                *)
(*                                                                         *)
(* One state is the situation after one call: the call's arguments as      *)
(* they were when it was made, what it returned or raised, the oracle      *)
(* invocations it made, and the caller's vector and the shared home        *)
(* configuration as the call left them.                                    *)
(***************************************************************************)
EXTENDS Integers, FiniteSets, Sequences

VARIABLES
    STRETCH_HOME_Q,   \* the module-level home configuration array
    _ik_type,         \* the ik_type the instance was constructed with
    call              \* the last call: op, args, ret, raised, oracle, q_after

vars == <<STRETCH_HOME_Q, _ik_type, call>>

\* Python's None: the empty tuple.  No vector of the model is empty.
None == << >>

(***************************************************************************)
(* HelloStretchIdx                                                         *)
(***************************************************************************)
BASE_X == 0
BASE_Y == 1
BASE_THETA == 2
LIFT == 3
ARM == 4
GRIPPER == 5
WRIST_ROLL == 6
WRIST_PITCH == 7
WRIST_YAW == 8
HEAD_PAN == 9
HEAD_TILT == 10

\* self.dof = 3 + 2 + 4 + 2
dof == 3 + 2 + 4 + 2

default_manip_mode_controlled_joints ==
    << "joint_fake", "joint_lift", "joint_arm_l3", "joint_arm_l2", "joint_arm_l1",
       "joint_arm_l0", "joint_wrist_yaw", "joint_wrist_pitch", "joint_wrist_roll" >>

\* self._manip_dof = len(self._manip_mode_controlled_joints)
_manip_dof == Len(default_manip_mode_controlled_joints)

\* The attributes an instance has once __init__ and _create_ik_solvers have run.
\* No method of the class assigns another one.
InstanceAttrs ==
    { "joint_tol", "manip_mode_urdf_path", "name", "visualize", "dof", "joints_dof",
      "base_height", "range", "_ik_type", "_ee_link_name", "_grasp_frame",
      "_manip_mode_controlled_joints", "_manip_dof", "manip_ik_solver" }

(***************************************************************************)
(* Bounds of the model                                                     *)
(***************************************************************************)
\* arm extensions 0..MaxArm, in least steps
MaxArm == 8
\* target coordinates -MaxCoord..MaxCoord
MaxCoord == 1
\* seed lengths from _manip_dof - ShapeSlack to dof + ShapeSlack
ShapeSlack == 1
\* headings 0..MaxTurn, in quarter turns
MaxTurn == 3

(***************************************************************************)
(* numpy helpers                                                           *)
(***************************************************************************)
len(q) == Cardinality(DOMAIN q)

zeros(n) == [i \in 0..(n - 1) |-> 0]

\* x / 4.0 on the grid of representable lengths: round to nearest, ties to even
Div4(x) ==
    LET f == x \div 4
        r == x % 4
    IN  IF r < 2 THEN f
        ELSE IF r > 2 THEN f + 1
        ELSE IF f % 2 = 0 THEN f ELSE f + 1

\* an index read or written outside the array raises IndexError
InBounds(q, idxs) == \A i \in idxs : i \in DOMAIN q

\* np.cos and np.sin of an angle given in quarter turns
cos(a) == CASE a % 4 = 0 -> 1 [] a % 4 = 1 -> 0 [] a % 4 = 2 -> -1 [] OTHER -> 0
sin(a) == CASE a % 4 = 0 -> 0 [] a % 4 = 1 -> 1 [] a % 4 = 2 -> 0 [] OTHER -> -1

\* np.pi / 2, in quarter turns
HalfPi == 1

(***************************************************************************)
(* Configuration converters                                                *)
(***************************************************************************)
\* the planning indices _to_manip_format and _ros_pose_to_pinocchio read
ManipReads == {BASE_X, LIFT, ARM, WRIST_YAW, WRIST_PITCH, WRIST_ROLL}

_to_manip_format(q) ==
    LET arm_ext == Div4(q[ARM])
    IN  [i \in 0..(_manip_dof - 1) |->
            CASE i = 0 -> q[BASE_X]
              [] i = 1 -> q[LIFT]
              [] i \in 2..5 -> arm_ext
              [] i = 6 -> q[WRIST_YAW]
              [] i = 7 -> q[WRIST_PITCH]
              [] OTHER -> q[WRIST_ROLL]]

_ros_pose_to_pinocchio(joint_angles) ==
    [i \in 0..8 |->
        CASE i = 0 -> joint_angles[BASE_X]
          [] i = 1 -> joint_angles[LIFT]
          [] i \in 2..5 -> Div4(joint_angles[ARM])
          [] i = 6 -> joint_angles[WRIST_YAW]
          [] i = 7 -> joint_angles[WRIST_PITCH]
          [] OTHER -> joint_angles[WRIST_ROLL]]

\* qi = np.zeros(self.ik_solver.get_num_joints()): the instance has no ik_solver,
\* so the attribute lookup raises before anything is written
_to_ik_format(q, num_joints) ==
    IF "ik_solver" \notin InstanceAttrs
    THEN [raised |-> "AttributeError", ret |-> None]
    ELSE [raised |-> "none",
          ret |-> [i \in 0..(num_joints - 1) |->
                      CASE i = 0 -> q[BASE_X]
                        [] i = 1 -> q[BASE_Y]
                        [] i = 2 -> q[BASE_THETA]
                        [] i = 3 -> q[LIFT]
                        [] i \in 4..7 -> Div4(q[ARM])
                        [] i = 8 -> q[WRIST_YAW]
                        [] i = 9 -> q[WRIST_PITCH]
                        [] i = 10 -> q[WRIST_ROLL]
                        [] OTHER -> 0]]

_to_plan_format(q) ==
    [zeros(dof) EXCEPT
        ![BASE_X] = q[0],
        ![BASE_Y] = q[1],
        ![BASE_THETA] = q[2],
        ![LIFT] = q[3],
        ![ARM] = q[4] + q[5] + q[6] + q[7],
        ![WRIST_YAW] = q[8],
        ![WRIST_PITCH] = q[9],
        ![WRIST_ROLL] = q[10]]

\* Fault variant: the wrist angles written back in planning order, roll first.
_from_manip_format_wrist_order(q_raw, q_init) ==
    [q |-> [q_init EXCEPT
                ![BASE_X] = q_raw[0],
                ![LIFT] = q_raw[1],
                ![ARM] = q_raw[2] + q_raw[3] + q_raw[4] + q_raw[5],
                ![WRIST_ROLL] = q_raw[6],
                ![WRIST_PITCH] = q_raw[7],
                ![WRIST_YAW] = q_raw[8]],
     q_init |-> q_init]

\* Fault variant: q = q_init without the copy, so the writes land in the
\* caller's array.
_from_manip_format_in_place(q_raw, q_init) ==
    LET q == [q_init EXCEPT
                ![BASE_X] = q_raw[0],
                ![LIFT] = q_raw[1],
                ![ARM] = q_raw[2] + q_raw[3] + q_raw[4] + q_raw[5],
                ![WRIST_ROLL] = q_raw[8],
                ![WRIST_PITCH] = q_raw[7],
                ![WRIST_YAW] = q_raw[6]]
    IN  [q |-> q, q_init |-> q]

\* q = q_init.copy(), then the writes into q.  The result names the returned
\* vector (q) and the contents of the caller's q_init array once the call is over.
_from_manip_format(q_raw, q_init) ==
    [q |-> [q_init EXCEPT
                ![BASE_X] = q_raw[0],
                ![LIFT] = q_raw[1],
                ![ARM] = q_raw[2] + q_raw[3] + q_raw[4] + q_raw[5],
                ![WRIST_ROLL] = q_raw[8],
                ![WRIST_PITCH] = q_raw[7],
                ![WRIST_YAW] = q_raw[6]],
     q_init |-> q_init]

(***************************************************************************)
(* Derived motion helper                                                   *)
(***************************************************************************)
\* Fault variant: no q.copy(), so the writes land in the caller's array.
extend_arm_to_in_place(q, arm) ==
    LET a0 == q[ARM]
        a1 == arm
        q1 == [q EXCEPT ![ARM] = a1]
        theta == q1[BASE_THETA] + HalfPi
        da == a1 - a0
        dx == da * cos(theta)
        dy == da * sin(theta)
        q2 == [q1 EXCEPT ![BASE_X] = @ + dx, ![BASE_Y] = @ + dy]
    IN  [q |-> q2, q_in |-> q2]

\* q = q.copy() comes before every write.  The result names the returned vector
\* (q) and the contents of the caller's array once the call is over (q_in).
extend_arm_to(q, arm) ==
    LET a0 == q[ARM]
        a1 == arm
        q1 == [q EXCEPT ![ARM] = a1]
        theta == q1[BASE_THETA] + HalfPi
        da == a1 - a0
        dx == da * cos(theta)
        dy == da * sin(theta)
    IN  [q |-> [q1 EXCEPT ![BASE_X] = @ + dx, ![BASE_Y] = @ + dy],
         q_in |-> q]

(***************************************************************************)
(* IK/FK orchestration                                                     *)
(*                                                                         *)
(* Each operation yields the outcome of one call: what it returned (ret)   *)
(* or the error it raised, the oracle invocations it made, in order, and   *)
(* the contents of the caller's vector (q_after) and of STRETCH_HOME_Q     *)
(* (home) once the call is over.  The oracle's answer is an input, kept as *)
(* the reply of the invocation it answers.                                 *)
(***************************************************************************)
DEFAULT_BASE_HEIGHT == 0

\* self.base_height = self.DEFAULT_BASE_HEIGHT
base_height == DEFAULT_BASE_HEIGHT

Return(ret, oracle, q_after, home) ==
    [raised |-> "none", ret |-> ret, oracle |-> oracle,
     q_after |-> q_after, home |-> home]

Raise(error, oracle, q_after, home) ==
    [raised |-> error, ret |-> None, oracle |-> oracle,
     q_after |-> q_after, home |-> home]

\* "pinocchio" in ik_type, "optimize" in ik_type
HasPinocchio(ik_type) == ik_type \in {"pinocchio", "pinocchio_optimize"}
HasOptimize(ik_type) == ik_type \in {"pinocchio_optimize"}

\* self.manip_ik_solver, as _create_ik_solvers sets it
manip_ik_solver(ik_type) ==
    IF HasOptimize(ik_type) THEN "PositionIKOptimizer" ELSE "PinocchioIKSolver"

\* fk is the oracle's answer (ee_pos, ee_quat)
manip_fk(q, node, ik_type, fk, home) ==
    IF q = None THEN Raise("AttributeError", <<>>, q, home)
    ELSE IF len(q) # dof THEN Raise("AssertionError", <<>>, q, home)
    ELSE
        LET qp == IF HasPinocchio(ik_type) THEN _ros_pose_to_pinocchio(q) ELSE q
            inv == [solver |-> manip_ik_solver(ik_type), fn |-> "compute_fk",
                    q |-> qp, node |-> node, reply |-> fk]
        IN  Return(<<fk.ee_pos, fk.ee_quat>>, <<inv>>, q, home)

\* pose is (pos, rot); ans is the oracle's answer (q, success, debug_info).
\* self.ik_solver is looked up before the seed is converted.
ik(pose, q0, ans, home) ==
    LET pos == pose[1]
        rot == pose[2]
        target == [R |-> rot,
                   t |-> [pos EXCEPT ![2] = @ - base_height]]
    IN  IF "ik_solver" \notin InstanceAttrs
        THEN Raise("AttributeError", <<>>, q0, home)
        ELSE
            LET seed == _to_ik_format(q0, dof)
                inv == [solver |-> "ik_solver", fn |-> "compute_ik",
                        pose |-> target, seed |-> seed.ret, reply |-> ans]
            IN  IF seed.raised # "none" THEN Raise(seed.raised, <<>>, q0, home)
                ELSE IF ans.q # None /\ ans.success
                THEN Return(_to_plan_format(ans.q), <<inv>>, q0, home)
                ELSE Return(None, <<inv>>, q0, home)

\* Fault variant: relative = False falls through to the relative branch instead
\* of raising.
manip_ik_no_raise(pose_query, q0, relative, ik_type, ans, home) ==
    IF q0 # None /\ ~InBounds(q0, ManipReads)
    THEN Raise("IndexError", <<>>, q0, home)
    ELSE
        LET default_q == IF q0 # None THEN q0 ELSE home
            inv == [solver |-> manip_ik_solver(ik_type), fn |-> "compute_ik",
                    pos |-> pose_query[1], quat |-> pose_query[2], seed |-> q0,
                    reply |-> ans]
        IN  IF ans.q # None /\ ans.success
            THEN
                LET m == _from_manip_format(ans.q, default_q)
                IN  Return(<<m.q, ans.success, ans.debug_info>>, <<inv>>,
                           IF q0 # None THEN m.q_init ELSE q0,
                           IF q0 # None THEN home ELSE m.q_init)
            ELSE Return(<<ans.q, ans.success, ans.debug_info>>, <<inv>>, q0, home)

\* pose_query is (pos, quat); ans is the oracle's answer (q, success, debug_info).
\* The value of self._to_manip_format(q0) is dropped: the call only raises
\* IndexError on a q0 too short for the indices it reads.  default_q is the q0
\* array itself or STRETCH_HOME_Q itself, and compute_ik is handed q0 as given.
manip_ik(pose_query, q0, relative, ik_type, ans, home) ==
    IF q0 # None /\ ~InBounds(q0, ManipReads)
    THEN Raise("IndexError", <<>>, q0, home)
    ELSE IF ~relative THEN Raise("NotImplementedError", <<>>, q0, home)
    ELSE
        LET default_q == IF q0 # None THEN q0 ELSE home
            pos == pose_query[1]
            quat == pose_query[2]
            inv == [solver |-> manip_ik_solver(ik_type), fn |-> "compute_ik",
                    pos |-> pos, quat |-> quat, seed |-> q0, reply |-> ans]
        IN  IF ans.q # None /\ ans.success
            THEN
                LET m == _from_manip_format(ans.q, default_q)
                IN  Return(<<m.q, ans.success, ans.debug_info>>, <<inv>>,
                           IF q0 # None THEN m.q_init ELSE q0,
                           IF q0 # None THEN home ELSE m.q_init)
            ELSE Return(<<ans.q, ans.success, ans.debug_info>>, <<inv>>, q0, home)

get_ee_pose(q, home) == Raise("NotImplementedError", <<>>, q, home)

_pinocchio_pose_to_ros(joint_angles, home) ==
    Raise("NotImplementedError", <<>>, joint_angles, home)

\* Fault variant: the check of the target height is missing.
manip_ik_for_grasp_frame_no_height_check(ee_pos, ee_rot, q0, ik_type, ans, home) ==
    IF ee_pos[1] > 0 THEN Raise("RuntimeError", <<>>, q0, home)
    ELSE IF q0 = None THEN Raise("TypeError", <<>>, q0, home)
    ELSE IF len(q0) # _manip_dof /\ len(q0) # dof
    THEN Raise("AssertionError", <<>>, q0, home)
    ELSE
        LET converted == len(q0) # _manip_dof
            seed == IF converted THEN _to_manip_format(q0) ELSE q0
            r == manip_ik(<<ee_pos, ee_rot>>, seed, TRUE, ik_type, ans, home)
            q_after == IF converted THEN q0 ELSE r.q_after
        IN  IF r.raised # "none" THEN Raise(r.raised, r.oracle, q_after, r.home)
            ELSE Return(<<r.ret[1], ee_pos, ee_rot, r.ret[2], r.ret[3]>>,
                        r.oracle, q_after, r.home)

\* A full-length q0 is replaced by a new manipulation-mode array, so manip_ik
\* works on that array and the caller's own vector is out of its reach.
manip_ik_for_grasp_frame(ee_pos, ee_rot, q0, ik_type, ans, home) ==
    IF ee_pos[1] > 0 THEN Raise("RuntimeError", <<>>, q0, home)
    ELSE IF ee_pos[2] < 0 THEN Raise("RuntimeError", <<>>, q0, home)
    ELSE IF q0 = None THEN Raise("TypeError", <<>>, q0, home)
    ELSE IF len(q0) # _manip_dof /\ len(q0) # dof
    THEN Raise("AssertionError", <<>>, q0, home)
    ELSE
        LET converted == len(q0) # _manip_dof
            seed == IF converted THEN _to_manip_format(q0) ELSE q0
            r == manip_ik(<<ee_pos, ee_rot>>, seed, TRUE, ik_type, ans, home)
            q_after == IF converted THEN q0 ELSE r.q_after
        IN  IF r.raised # "none" THEN Raise(r.raised, r.oracle, q_after, r.home)
            ELSE Return(<<r.ret[1], ee_pos, ee_rot, r.ret[2], r.ret[3]>>,
                        r.oracle, q_after, r.home)

(***************************************************************************)
(* Inputs                                                                  *)
(***************************************************************************)
\* a vector of n fields, all different: field i holds s + i
Ramp(n, s) == [i \in 0..(n - 1) |-> s + i]

\* STRETCH_HOME_Q as imported from stretch.motion.constants: a full planning
\* configuration.  Its values are set outside this file and no operation does
\* more than copy them, so each field holds a value of its own.
HOME_Q == Ramp(dof, 50)

\* planning configurations: every arm extension of the bound
PlanConfigs == {[Ramp(dof, s) EXCEPT ![ARM] = a] : s \in {10, 30}, a \in 0..MaxArm}

\* planning configurations at every heading and arm extension of the bounds
ArmConfigs ==
    {[Ramp(dof, 10) EXCEPT ![BASE_THETA] = t, ![ARM] = a] :
        t \in 0..MaxTurn, a \in 0..MaxArm}

\* manipulation-mode vectors an oracle may return: equal and unequal segments
OracleQs == {Ramp(_manip_dof, 100),
             [Ramp(_manip_dof, 100) EXCEPT ![2] = 2, ![3] = 2, ![4] = 2, ![5] = 2]}

\* solver joint vectors (11 values), equal and unequal segments
SolverQs == {Ramp(dof, 200),
             [Ramp(dof, 200) EXCEPT ![4] = 1, ![5] = 1, ![6] = 1, ![7] = 1]}

\* the ik types _create_ik_solvers accepts
IkTypes == {"pinocchio", "pinocchio_optimize"}

\* seeds of every length around the two well-formed ones
SeedLens == (_manip_dof - ShapeSlack)..(dof + ShapeSlack)
Seeds == {Ramp(n, 10) : n \in SeedLens}

\* grasp targets (x, y, z): every y and z on either side of the planes y = 0
\* and z = 0, which manip_ik_for_grasp_frame tests
GraspTargets ==
    {[i \in 0..2 |-> CASE i = 0 -> 0 [] i = 1 -> y [] OTHER -> z] :
        y \in (-MaxCoord)..MaxCoord, z \in (-MaxCoord)..MaxCoord}

\* positions of the poses given to ik and manip_ik, which test no coordinate
Positions == {[i \in 0..2 |-> c] : c \in (-MaxCoord)..MaxCoord}

\* a unit quaternion (x, y, z, w)
Quats == {[i \in 0..3 |-> IF i = 3 THEN 1 ELSE 0]}

\* what compute_ik may answer: a joint vector or None, with either flag
IkAnswers ==
    [q : {Ramp(_manip_dof, 100), None}, success : BOOLEAN, debug_info : {"info"}]

\* what compute_ik of the full-body solver may answer
FullIkAnswers ==
    [q : {Ramp(dof, 200), None}, success : BOOLEAN, debug_info : {"info"}]

\* what compute_fk may answer
FkAnswers == [ee_pos : {Ramp(3, 0), Ramp(3, 1)}, ee_quat : Quats]

Init ==
    /\ STRETCH_HOME_Q = HOME_Q
    /\ _ik_type \in IkTypes
    /\ call = [op |-> "__init__", raised |-> "none"]

(***************************************************************************)
(* Calls of the converters                                                 *)
(***************************************************************************)
Call_to_manip_format ==
    \E q \in PlanConfigs :
        /\ call' = [op |-> "_to_manip_format", args |-> [q |-> q],
                    raised |-> "none", ret |-> _to_manip_format(q),
                    oracle |-> <<>>, q_after |-> q]
        /\ UNCHANGED <<STRETCH_HOME_Q, _ik_type>>

Call_ros_pose_to_pinocchio ==
    \E q \in PlanConfigs :
        /\ call' = [op |-> "_ros_pose_to_pinocchio", args |-> [q |-> q],
                    raised |-> "none", ret |-> _ros_pose_to_pinocchio(q),
                    oracle |-> <<>>, q_after |-> q]
        /\ UNCHANGED <<STRETCH_HOME_Q, _ik_type>>

Call_to_ik_format ==
    \E q \in PlanConfigs :
        LET r == _to_ik_format(q, dof)
        IN  /\ call' = [op |-> "_to_ik_format", args |-> [q |-> q],
                        raised |-> r.raised, ret |-> r.ret,
                        oracle |-> <<>>, q_after |-> q]
            /\ UNCHANGED <<STRETCH_HOME_Q, _ik_type>>

Call_to_plan_format ==
    \E q \in SolverQs :
        /\ call' = [op |-> "_to_plan_format", args |-> [q |-> q],
                    raised |-> "none", ret |-> _to_plan_format(q),
                    oracle |-> <<>>, q_after |-> q]
        /\ UNCHANGED <<STRETCH_HOME_Q, _ik_type>>

\* q_raw is an oracle's vector, or what the preceding _to_manip_format call
\* returned; src is then the configuration that call converted
Call_from_manip_format ==
    \E q_init \in PlanConfigs :
        \E raw \in {[q |-> o, src |-> None] : o \in OracleQs}
                   \cup (IF call.op = "_to_manip_format"
                         THEN {[q |-> call.ret, src |-> call.args.q]} ELSE {}) :
            LET r == _from_manip_format(raw.q, q_init)
            IN  /\ call' = [op |-> "_from_manip_format",
                            args |-> [q_raw |-> raw.q, q_init |-> q_init],
                            src |-> raw.src,
                            raised |-> "none", ret |-> r.q,
                            oracle |-> <<>>, q_after |-> r.q_init]
                /\ UNCHANGED <<STRETCH_HOME_Q, _ik_type>>

Call_extend_arm_to ==
    \E q \in ArmConfigs, arm \in 0..MaxArm :
        LET r == extend_arm_to(q, arm)
        IN  /\ call' = [op |-> "extend_arm_to", args |-> [q |-> q, arm |-> arm],
                        raised |-> "none", ret |-> r.q,
                        oracle |-> <<>>, q_after |-> r.q_in]
            /\ UNCHANGED <<STRETCH_HOME_Q, _ik_type>>

NextPure ==
    \/ Call_to_ik_format
    \/ Call_to_manip_format
    \/ Call_ros_pose_to_pinocchio
    \/ Call_to_plan_format
    \/ Call_from_manip_format
    \/ Call_extend_arm_to

SpecPure == Init /\ [][NextPure]_vars

(***************************************************************************)
(* Calls of the orchestration operations                                   *)
(***************************************************************************)
\* the record of a call with outcome r
Outcome(op, args, r) ==
    [op |-> op, args |-> args, raised |-> r.raised, ret |-> r.ret,
     oracle |-> r.oracle, q_after |-> r.q_after]

Call_manip_fk ==
    \E q \in Seeds \cup {None}, fk \in FkAnswers :
        LET r == manip_fk(q, None, _ik_type, fk, STRETCH_HOME_Q)
        IN  /\ call' = Outcome("manip_fk", [q |-> q, node |-> None], r)
            /\ STRETCH_HOME_Q' = r.home
            /\ UNCHANGED _ik_type

\* ik stops before its oracle is asked, so the answer the oracle stood ready to
\* give is kept with the arguments
Call_ik ==
    \E pos \in Positions, rot \in Quats, q0 \in Seeds, ans \in FullIkAnswers :
        LET r == ik(<<pos, rot>>, q0, ans, STRETCH_HOME_Q)
        IN  /\ call' = Outcome("ik", [pose |-> <<pos, rot>>, q0 |-> q0,
                                      answer |-> ans], r)
            /\ STRETCH_HOME_Q' = r.home
            /\ UNCHANGED _ik_type

Call_manip_ik ==
    \E pos \in Positions, quat \in Quats, q0 \in Seeds \cup {None},
       relative \in BOOLEAN, ans \in IkAnswers :
        LET r == manip_ik(<<pos, quat>>, q0, relative, _ik_type, ans,
                          STRETCH_HOME_Q)
        IN  /\ call' = Outcome("manip_ik",
                               [pose_query |-> <<pos, quat>>, q0 |-> q0,
                                relative |-> relative], r)
            /\ STRETCH_HOME_Q' = r.home
            /\ UNCHANGED _ik_type

Call_manip_ik_for_grasp_frame ==
    \E ee_pos \in GraspTargets, ee_rot \in Quats, q0 \in Seeds \cup {None},
       ans \in IkAnswers :
        LET r == manip_ik_for_grasp_frame(ee_pos, ee_rot, q0, _ik_type, ans,
                                          STRETCH_HOME_Q)
        IN  /\ call' = Outcome("manip_ik_for_grasp_frame",
                               [ee_pos |-> ee_pos, ee_rot |-> ee_rot, q0 |-> q0], r)
            /\ STRETCH_HOME_Q' = r.home
            /\ UNCHANGED _ik_type

Call_get_ee_pose ==
    \E q \in Seeds \cup {None} :
        LET r == get_ee_pose(q, STRETCH_HOME_Q)
        IN  /\ call' = Outcome("get_ee_pose", [q |-> q], r)
            /\ STRETCH_HOME_Q' = r.home
            /\ UNCHANGED _ik_type

Call_pinocchio_pose_to_ros ==
    \E q \in Seeds :
        LET r == _pinocchio_pose_to_ros(q, STRETCH_HOME_Q)
        IN  /\ call' = Outcome("_pinocchio_pose_to_ros", [joint_angles |-> q], r)
            /\ STRETCH_HOME_Q' = r.home
            /\ UNCHANGED _ik_type

Next ==
    \/ Call_manip_fk
    \/ Call_ik
    \/ Call_manip_ik
    \/ Call_manip_ik_for_grasp_frame
    \/ Call_get_ee_pose
    \/ Call_pinocchio_pose_to_ros

Spec == Init /\ [][Next]_vars

(***************************************************************************)
(* Properties                                                              *)
(***************************************************************************)
\* the four arm segments of a manipulation-mode vector, of a solver vector
ManipSegs == 2..5
SolverSegs == 4..7

\* the sum of v over the indices idxs
RECURSIVE SumOver(_, _)
SumOver(v, idxs) ==
    IF idxs = {} THEN 0
    ELSE LET i == CHOOSE k \in idxs : TRUE IN v[i] + SumOver(v, idxs \ {i})

\* the planning fields a manipulation-mode vector has no slot for
Untouched == {BASE_Y, BASE_THETA, GRIPPER, HEAD_PAN, HEAD_TILT}

\* the arm extension splits exactly into four equal segments
SplitsExactly(q) == 4 * Div4(q[ARM]) = q[ARM]

\* the oracle's reply to the only invocation of the last call
Reply == call.oracle[1].reply

GraspOps == {"manip_ik", "manip_ik_for_grasp_frame"}

\* C1: a planning configuration q whose arm extension splits exactly into four
\* equal segments is returned unchanged, field by field, when the result of
\* _to_manip_format(q) is merged back into q by _from_manip_format.
C1_RoundTrip ==
    ( /\ call.op = "_from_manip_format"
      /\ call.src = call.args.q_init
      /\ SplitsExactly(call.args.q_init) )
    => call.ret = call.args.q_init

\* a round trip of a configuration with a non-zero arm extension has been made
C1_Witness ==
    /\ call.op = "_from_manip_format"
    /\ call.src = call.args.q_init
    /\ SplitsExactly(call.args.q_init)
    /\ call.args.q_init[ARM] > 0
    /\ call.args.q_raw[2] > 0
    /\ call.ret = call.args.q_init

\* C2: when manip_ik, called directly with a full-length or absent seed or through
\* manip_ik_for_grasp_frame with a seed of length 9 or 11, gets success and a
\* joint vector from the oracle, it returns a planning configuration of 11
\* fields: base-x, lift, arm (the sum of the segments) and the wrist angles from
\* the oracle's vector, the other fields from the seed, or from the home
\* configuration when there is no seed.
C2_MergedResult ==
    ( /\ call.op \in GraspOps
      /\ call.raised = "none"
      /\ call.oracle # <<>>
      /\ Reply.success
      /\ Reply.q # None
      /\ \/ call.op = "manip_ik" /\ len(call.args.q0) \in {0, dof}
         \/ call.op = "manip_ik_for_grasp_frame"
            /\ len(call.args.q0) \in {_manip_dof, dof} )
    => LET q == call.ret[1]
           o == Reply.q
           base == IF call.args.q0 = None THEN HOME_Q ELSE call.args.q0
       IN  /\ DOMAIN q = 0..(dof - 1)
           /\ q[BASE_X] = o[0]
           /\ q[LIFT] = o[1]
           /\ q[ARM] = o[2] + o[3] + o[4] + o[5]
           /\ q[WRIST_YAW] = o[6]
           /\ q[WRIST_PITCH] = o[7]
           /\ q[WRIST_ROLL] = o[8]
           /\ \A i \in Untouched : q[i] = base[i]

\* C3: the seed manip_ik hands to compute_ik (relative = True) is a
\* manipulation-mode vector of 9 values: the converted seed when a full-length
\* seed was supplied, the home configuration when none was.
C3_SeedInManipForm ==
    ( /\ call.op = "manip_ik"
      /\ call.args.relative
      /\ call.oracle # <<>> )
    => LET handed == call.oracle[1].seed
       IN  /\ len(handed) = _manip_dof
           /\ len(call.args.q0) = dof => handed = _to_manip_format(call.args.q0)
           /\ call.args.q0 = None => handed = _to_manip_format(HOME_Q)

\* C4: when the oracle reports success = false for a well-formed query, ik returns
\* None, and manip_ik and manip_ik_for_grasp_frame return success = false with the
\* oracle's joint vector as it is; none of them raises.
C4_FailurePassedOn ==
    /\ ( /\ call.op = "ik"
         /\ len(call.args.q0) = dof
         /\ ~call.args.answer.success )
       => (call.raised = "none" /\ call.ret = None)
    /\ ( /\ call.op \in GraspOps
         /\ call.oracle # <<>>
         /\ ~Reply.success )
       => /\ call.raised = "none"
          /\ call.ret[1] = Reply.q
          /\ call.ret[IF call.op = "manip_ik" THEN 2 ELSE 4] = FALSE

\* C5: manip_ik_for_grasp_frame raises a domain error, with no oracle invocation,
\* for a target with y > 0 and for a target with z < 0; for a target with y < 0
\* and z >= 0 and a seed of length 9 or 11 it invokes the oracle and returns the
\* target position and orientation it was given.
C5_GraspPrecondition ==
    call.op = "manip_ik_for_grasp_frame" =>
        /\ (call.args.ee_pos[1] > 0 \/ call.args.ee_pos[2] < 0)
           => (call.raised = "RuntimeError" /\ call.oracle = <<>>)
        /\ ( /\ call.args.ee_pos[1] < 0
             /\ call.args.ee_pos[2] >= 0
             /\ len(call.args.q0) \in {_manip_dof, dof} )
           => /\ call.raised = "none"
              /\ Len(call.oracle) = 1
              /\ call.oracle[1].fn = "compute_ik"
              /\ call.ret[2] = call.args.ee_pos
              /\ call.ret[3] = call.args.ee_rot

\* a grasp-frame call with a full-length seed has reached the oracle and returned
C5_Witness ==
    /\ call.op = "manip_ik_for_grasp_frame"
    /\ call.args.ee_pos[1] < 0
    /\ call.args.ee_pos[2] >= 0
    /\ len(call.args.q0) = dof
    /\ Len(call.oracle) = 1
    /\ call.ret[2] = call.args.ee_pos

\* C6: a configuration vector of unexpected length makes the operation fail before
\* the oracle is invoked: manip_fk with a length other than 11, manip_ik and
\* manip_ik_for_grasp_frame with a seed of a length other than 9 and 11.
C6_ShapeChecked ==
    /\ (call.op = "manip_fk" /\ len(call.args.q) # dof)
       => (call.raised # "none" /\ call.oracle = <<>>)
    /\ ( /\ call.op \in GraspOps
         /\ call.args.q0 # None
         /\ len(call.args.q0) \notin {_manip_dof, dof} )
       => (call.raised # "none" /\ call.oracle = <<>>)

\* C7, as claimed: get_ee_pose and _pinocchio_pose_to_ros raise a not-implemented
\* error for every input, and so does manip_ik with relative = False for every
\* pose and seed, before compute_ik is invoked.
C7_NotImplementedForEverySeed ==
    /\ call.op \in {"get_ee_pose", "_pinocchio_pose_to_ros"}
       => call.raised = "NotImplementedError"
    /\ (call.op = "manip_ik" /\ ~call.args.relative)
       => (call.raised = "NotImplementedError" /\ call.oracle = <<>>)

\* C7, amended: get_ee_pose and _pinocchio_pose_to_ros raise a not-implemented
\* error for every input; manip_ik with relative = False never returns a value and
\* never invokes compute_ik, raising a not-implemented error for every pose when
\* the seed is absent or has at least 9 values, and an index error when the seed
\* is shorter.
C7_Unimplemented ==
    /\ call.op \in {"get_ee_pose", "_pinocchio_pose_to_ros"}
       => (call.raised = "NotImplementedError" /\ call.ret = None)
    /\ (call.op = "manip_ik" /\ ~call.args.relative)
       => /\ call.oracle = <<>>
          /\ call.ret = None
          /\ call.raised =
                IF call.args.q0 = None \/ len(call.args.q0) >= _manip_dof
                THEN "NotImplementedError" ELSE "IndexError"

\* manip_ik has been called with relative = False and a full-length seed
C7_Witness ==
    /\ call.op = "manip_ik"
    /\ ~call.args.relative
    /\ len(call.args.q0) = dof
    /\ call.raised = "NotImplementedError"

\* C8: _to_ik_format, _to_manip_format and _ros_pose_to_pinocchio write four equal
\* segment values that sum to the arm extension; _to_plan_format and
\* _from_manip_format set the arm extension to the sum of the four segments they
\* are given, equal or not.
C8_SegmentSplit ==
    /\ call.op \in {"_to_ik_format", "_to_manip_format", "_ros_pose_to_pinocchio"}
       => LET segs == IF call.op = "_to_ik_format" THEN SolverSegs ELSE ManipSegs
          IN  /\ call.raised = "none"
              /\ \A i, j \in segs : call.ret[i] = call.ret[j]
              /\ SumOver(call.ret, segs) = call.args.q[ARM]
    /\ call.op = "_to_plan_format"
       => call.ret[ARM] = SumOver(call.args.q, SolverSegs)
    /\ call.op = "_from_manip_format"
       => call.ret[ARM] = SumOver(call.args.q_raw, ManipSegs)

Passed(c) == IF c.op = "manip_fk" THEN c.args.q ELSE c.args.q0

\* the replies the oracle gave during a call
Replies(c) == [i \in 1..Len(c.oracle) |-> c.oracle[i].reply]

OrchestrationOps == {"manip_fk", "manip_ik", "manip_ik_for_grasp_frame"}

\* C10: a call of manip_fk, manip_ik or manip_ik_for_grasp_frame leaves the
\* caller's vector and the home configuration as they were, and a call that
\* repeats the preceding one, with the same arguments and the same oracle
\* replies, ends the same way with the same result.
C10_Stateless ==
    [][ call'.op \in OrchestrationOps =>
            /\ STRETCH_HOME_Q' = STRETCH_HOME_Q
            /\ call'.q_after = Passed(call')
            /\ ( /\ call.op = call'.op
                 /\ call.args = call'.args
                 /\ Replies(call) = Replies(call') )
               => (call'.ret = call.ret /\ call'.raised = call.raised) ]_vars

\* manip_ik has merged an oracle's vector over the home configuration
C10_Witness ==
    /\ call.op = "manip_ik"
    /\ call.args.q0 = None
    /\ call.raised = "none"
    /\ call.ret[2]
    /\ call.ret[1] # None
    /\ \A i \in Untouched : call.ret[1][i] = STRETCH_HOME_Q[i]
    /\ call.ret[1][BASE_X] # STRETCH_HOME_Q[BASE_X]

====
